---- MODULE Spec2Model ----
(***************************************************************************)
(* Model of the gs_usb host driver (src/gs_usb): the channel controller    *)
(* GsUsb, the control structures of gs_usb_structures.py and the frame     *)
(* codec of gs_usb_frame.py, together with the USB transport and the       *)
(* device it talks to.                                                     *)
(*                                                                         *)
(* Conventions                                                             *)
(*   - a byte buffer is a sequence of naturals 0..255;                     *)
(*   - a u32 that may use bit 31 (echo_id, can_id, timestamp_us) is the    *)
(*     pair <<hi, lo>> of its 16-bit halves, value hi * 65536 + lo;        *)
(*     every other integer (flags, clock, timing words) is a natural;      *)
(*   - Python's None for an optional integer is NoneInt, None for the      *)
(*     cached capability is NoCapability;                                  *)
(*   - a sample point is given in tenths of a percent (87.5 is 875).       *)
(***************************************************************************)
EXTENDS Integers, Sequences, FiniteSets, TLC

VARIABLES
    dev,            \* the attached device: what it reports over BT_CONST(_EXT)
    hw_state,       \* the device's live CAN state and error counters
    capability,     \* GsUsb.capability
    device_flags,   \* GsUsb.device_flags
    fd_mode,        \* GsUsb.fd_mode
    frame,          \* the GsUsbFrame object handed to the call, as the call
                    \* left it (NoFrame when the call takes no frame)
    op,             \* the operation last called, with its arguments
    result,         \* how that call ended
    calls,          \* the transport calls that call made, in order
    before,         \* the session as it was when that operation was called
    n_get_state,    \* get_state calls that got past the feature check
    n_state_xfers,  \* GET_STATE control transfers issued so far
    n_ext_xfers     \* BT_CONST_EXT control transfers answered so far

vars == <<dev, hw_state, capability, device_flags, fd_mode, frame,
          op, result, calls, before, n_get_state, n_state_xfers, n_ext_xfers>>

\* the ChannelSession: cached capability, recorded mode flags, FD-active bit
session ==
    [capability |-> capability, device_flags |-> device_flags, fd_mode |-> fd_mode]

-----------------------------------------------------------------------------
(* Bounds of the model *)

MaxGetState == 2

MaxExtFetch == 2

-----------------------------------------------------------------------------
(* constants.py *)

GS_CAN_MODE_NORMAL == 0
GS_CAN_MODE_LISTEN_ONLY == 1
GS_CAN_MODE_LOOP_BACK == 2
GS_CAN_MODE_TRIPLE_SAMPLE == 4
GS_CAN_MODE_ONE_SHOT == 8
GS_CAN_MODE_HW_TIMESTAMP == 16
GS_CAN_MODE_FD == 256
GS_CAN_MODE_BERR_REPORTING == 4096

GS_CAN_FEATURE_FD == 256
GS_CAN_FEATURE_BT_CONST_EXT == 1024
GS_CAN_FEATURE_GET_STATE == 8192

GS_CAN_FLAG_FD == 2
GS_CAN_FLAG_BRS == 4

CANFD_MAX_DLEN == 64
CANFD_DLC_TO_LEN == <<0, 1, 2, 3, 4, 5, 6, 7, 8, 12, 16, 20, 24, 32, 48, 64>>

\* the flag bits and the mask of a CAN identifier word, as <<hi, lo>> halves
CAN_EFF_FLAG == <<32768, 0>>
CAN_RTR_FLAG == <<16384, 0>>
CAN_ERR_FLAG == <<8192, 0>>
CAN_EFF_MASK == <<8191, 65535>>

(* gs_usb.py *)

GS_CAN_MODE_RESET == 0
GS_CAN_MODE_START == 1

GS_USB_BREQ_BITTIMING == 1
GS_USB_BREQ_MODE == 2
GS_USB_BREQ_BT_CONST == 4
GS_USB_BREQ_DEVICE_CONFIG == 5
GS_USB_BREQ_DATA_BITTIMING == 10
GS_USB_BREQ_BT_CONST_EXT == 11
GS_USB_BREQ_GET_STATE == 14

HostToDevice == 65      \* 0x41
DeviceToHost == 193     \* 0xC1
EndpointOut == 2        \* 0x02
EndpointIn == 129       \* 0x81

(* gs_usb_frame.py *)

GS_USB_ECHO_ID == <<0, 0>>
GS_USB_FRAME_SIZE == 20
GS_USB_FRAME_SIZE_HW_TIMESTAMP == 24
GS_USB_FRAME_SIZE_FD == 76
GS_USB_FRAME_SIZE_FD_HW_TIMESTAMP == 80

NoneInt == -1
NoCapability == [is_none |-> TRUE]

-----------------------------------------------------------------------------
(* Integer and byte helpers: Python's & on naturals, struct's "<I" and "B" *)

RECURSIVE BitAnd(_, _)
BitAnd(a, b) ==
    IF a = 0 \/ b = 0 THEN 0
    ELSE (a % 2) * (b % 2) + 2 * BitAnd(a \div 2, b \div 2)

Min(a, b) == IF a <= b THEN a ELSE b

SubSeqFrom(s, m, n) == IF n < m THEN <<>> ELSE SubSeq(s, m, n)

Zeros(n) == [i \in 1..n |-> 0]

\* struct "<I" of a natural below 2^31
LE32(n) == <<n % 256, (n \div 256) % 256, (n \div 65536) % 256,
             (n \div 16777216) % 256>>

\* struct "<I" of a u32 given as <<hi, lo>>
LE32W(w) == <<w[2] % 256, w[2] \div 256, w[1] % 256, w[1] \div 256>>

\* the u32 at byte offset off (0-based) of buffer b, as a natural
U32At(b, off) ==
    b[off + 1] + 256 * b[off + 2] + 65536 * b[off + 3] + 16777216 * b[off + 4]

\* the u32 at byte offset off (0-based) of buffer b, as <<hi, lo>>
W32At(b, off) ==
    <<b[off + 3] + 256 * b[off + 4], b[off + 1] + 256 * b[off + 2]>>

RECURSIVE PackWords(_)
PackWords(ws) ==
    IF ws = <<>> THEN <<>> ELSE LE32(Head(ws)) \o PackWords(Tail(ws))

UnpackWords(b, n) == [i \in 1..n |-> U32At(b, 4 * (i - 1))]


-----------------------------------------------------------------------------
(* gs_usb_structures.py *)

DeviceMode_pack(mode, flags) == LE32(mode) \o LE32(flags)

DeviceBitTiming(prop_seg, phase_seg1, phase_seg2, sjw, brp) ==
    [prop_seg |-> prop_seg, phase_seg1 |-> phase_seg1,
     phase_seg2 |-> phase_seg2, sjw |-> sjw, brp |-> brp]

\* DeviceBitTiming.pack with the prescaler as the first word
DeviceBitTiming_pack_brp_first(t) ==
    PackWords(<<t.brp, t.prop_seg, t.phase_seg1, t.phase_seg2, t.sjw>>)

DeviceBitTiming_pack(t) ==
    PackWords(<<t.prop_seg, t.phase_seg1, t.phase_seg2, t.sjw, t.brp>>)

\* DeviceCapability.__init__ on the words of a response; the data phase
\* fields default to None when only ten words are given
DeviceCapability(w) ==
    LET opt(i) == IF i <= Len(w) THEN w[i] ELSE NoneInt IN
    [feature |-> w[1], fclk_can |-> w[2],
     tseg1_min |-> w[3], tseg1_max |-> w[4],
     tseg2_min |-> w[5], tseg2_max |-> w[6],
     sjw_max |-> w[7], brp_min |-> w[8], brp_max |-> w[9], brp_inc |-> w[10],
     dtseg1_min |-> opt(11), dtseg1_max |-> opt(12),
     dtseg2_min |-> opt(13), dtseg2_max |-> opt(14),
     dsjw_max |-> opt(15), dbrp_min |-> opt(16), dbrp_max |-> opt(17),
     dbrp_inc |-> opt(18)]

DeviceCapability_unpack(data) == DeviceCapability(UnpackWords(data, 10))

DeviceCapability_unpack_extended(data) == DeviceCapability(UnpackWords(data, 18))

has_fd_timing(cap) == cap.dtseg1_min # NoneInt

\* DeviceState.unpack with the two error counters taken in the wrong order
DeviceState_unpack_swapped(data) ==
    [state |-> U32At(data, 0), rxerr |-> U32At(data, 8), txerr |-> U32At(data, 4)]

DeviceState_unpack(data) ==
    [state |-> U32At(data, 0), rxerr |-> U32At(data, 4), txerr |-> U32At(data, 8)]

DeviceInfo(reserved1, reserved2, reserved3, icount, fw_version, hw_version) ==
    [reserved1 |-> reserved1, reserved2 |-> reserved2, reserved3 |-> reserved3,
     icount |-> icount, fw_version |-> fw_version, hw_version |-> hw_version]

\* unpack("<4B2I", data)
DeviceInfo_unpack(data) ==
    DeviceInfo(data[1], data[2], data[3], data[4], U32At(data, 4), U32At(data, 8))

-----------------------------------------------------------------------------
(* gs_usb_frame.py *)

\* dlc_to_len that ignores the CAN FD length table
dlc_to_len_classic(dlc, fd) == Min(dlc, 8)

dlc_to_len(dlc, fd) ==
    IF fd
    THEN IF dlc < Len(CANFD_DLC_TO_LEN) THEN CANFD_DLC_TO_LEN[dlc + 1]
         ELSE CANFD_MAX_DLEN
    ELSE Min(dlc, 8)

\* len_to_dlc that rounds down: the largest table index whose length fits in
\* the requested length
len_to_dlc_floor(length, fd) ==
    IF fd
    THEN LET fits == {i \in 1..Len(CANFD_DLC_TO_LEN) : CANFD_DLC_TO_LEN[i] <= length}
         IN (CHOOSE i \in fits : \A j \in fits : i >= j) - 1
    ELSE Min(length, 8)

len_to_dlc(length, fd) ==
    IF fd
    THEN LET fits == {i \in 1..Len(CANFD_DLC_TO_LEN) : CANFD_DLC_TO_LEN[i] >= length}
         IN IF fits # {}
            THEN (CHOOSE i \in fits : \A j \in fits : i <= j) - 1
            ELSE 15
    ELSE Min(length, 8)

\* GsUsbFrame.__init__(can_id, data, fd, brs); data is a list of byte values
GsUsbFrame(can_id, data, fd, brs) ==
    LET max_len == IF fd THEN CANFD_MAX_DLEN ELSE 8
        data_len == Min(Len(data), max_len)
        flags == (IF fd THEN GS_CAN_FLAG_FD ELSE 0)
                 + (IF brs /\ fd THEN GS_CAN_FLAG_BRS ELSE 0)
    IN [echo_id |-> GS_USB_ECHO_ID, can_id |-> can_id,
        can_dlc |-> len_to_dlc(Len(data), fd), channel |-> 0,
        flags |-> flags, reserved |-> 0,
        data |-> SubSeqFrom(data, 1, data_len) \o Zeros(max_len - data_len),
        timestamp_us |-> <<0, 0>>]

is_fd(f) == BitAnd(f.flags, GS_CAN_FLAG_FD) # 0

\* Python's & on two u32 words given as <<hi, lo>>
W32And(a, b) == <<BitAnd(a[1], b[1]), BitAnd(a[2], b[2])>>

arbitration_id(f) == W32And(f.can_id, CAN_EFF_MASK)

is_extended_id(f) == W32And(f.can_id, CAN_EFF_FLAG) # <<0, 0>>

is_remote_frame(f) == W32And(f.can_id, CAN_RTR_FLAG) # <<0, 0>>

is_error_frame(f) == W32And(f.can_id, CAN_ERR_FLAG) # <<0, 0>>

is_brs(f) == BitAnd(f.flags, GS_CAN_FLAG_BRS) # 0

data_length(f) == dlc_to_len(f.can_dlc, is_fd(f))

frame_sizeof(hw_timestamp, fd) ==
    IF fd
    THEN IF hw_timestamp THEN GS_USB_FRAME_SIZE_FD_HW_TIMESTAMP
         ELSE GS_USB_FRAME_SIZE_FD
    ELSE IF hw_timestamp THEN GS_USB_FRAME_SIZE_HW_TIMESTAMP
         ELSE GS_USB_FRAME_SIZE

\* pack that takes the FD layout from the frame's own FD flag instead of the
\* session's fd_mode
pack_by_frame_flag(f, hw_timestamp, fd) ==
    LET n == IF BitAnd(f.flags, GS_CAN_FLAG_FD) # 0 THEN 64 ELSE 8
        payload == SubSeqFrom(f.data, 1, Min(Len(f.data), n))
    IN IF Len(payload) # n
       THEN [ok |-> FALSE, bytes |-> <<>>]
       ELSE [ok |-> TRUE,
             bytes |-> LE32W(f.echo_id) \o LE32W(f.can_id)
                       \o <<f.can_dlc, f.channel, f.flags, f.reserved>>
                       \o payload
                       \o (IF hw_timestamp THEN LE32W(f.timestamp_us) ELSE <<>>)]

\* GsUsbFrame.pack: struct.pack raises struct.error (ok = FALSE) when the
\* payload slice does not supply the 8 or 64 items the format has
pack(f, hw_timestamp, fd) ==
    LET n == IF fd THEN 64 ELSE 8
        payload == SubSeqFrom(f.data, 1, Min(Len(f.data), n))
    IN IF Len(payload) # n
       THEN [ok |-> FALSE, bytes |-> <<>>]
       ELSE [ok |-> TRUE,
             bytes |-> LE32W(f.echo_id) \o LE32W(f.can_id)
                       \o <<f.can_dlc, f.channel, f.flags, f.reserved>>
                       \o payload
                       \o (IF hw_timestamp THEN LE32W(f.timestamp_us) ELSE <<>>)]

\* unpack_into that stores the header words before it checks the size of the
\* buffer: a short buffer leaves a half-written frame
unpack_into_partial(f, data, hw_timestamp, fd) ==
    LET n == IF fd THEN 64 ELSE 8
        size == 12 + n + (IF hw_timestamp THEN 4 ELSE 0)
    IN IF Len(data) # size
       THEN [ok |-> FALSE,
             frame |-> IF Len(data) >= 4 THEN [f EXCEPT !.echo_id = W32At(data, 0)]
                       ELSE f]
       ELSE [ok |-> TRUE,
             frame |-> [echo_id |-> W32At(data, 0), can_id |-> W32At(data, 4),
                        can_dlc |-> data[9], channel |-> data[10],
                        flags |-> data[11], reserved |-> data[12],
                        data |-> IF fd THEN SubSeq(data, 13, 76)
                                 ELSE SubSeq(data, 13, 20) \o Zeros(56),
                        timestamp_us |-> IF hw_timestamp
                                         THEN W32At(data, 12 + n)
                                         ELSE f.timestamp_us]]

\* unpack_into that clears the timestamp of the frame when the layout has
\* none
unpack_into_zero_timestamp(f, data, hw_timestamp, fd) ==
    LET n == IF fd THEN 64 ELSE 8
        size == 12 + n + (IF hw_timestamp THEN 4 ELSE 0)
    IN IF Len(data) # size
       THEN [ok |-> FALSE, frame |-> f]
       ELSE [ok |-> TRUE,
             frame |-> [echo_id |-> W32At(data, 0), can_id |-> W32At(data, 4),
                        can_dlc |-> data[9], channel |-> data[10],
                        flags |-> data[11], reserved |-> data[12],
                        data |-> IF fd THEN SubSeq(data, 13, 76)
                                 ELSE SubSeq(data, 13, 20) \o Zeros(56),
                        timestamp_us |-> IF hw_timestamp
                                         THEN W32At(data, 12 + n)
                                         ELSE <<0, 0>>]]

\* GsUsbFrame.unpack_into: struct.unpack raises struct.error (ok = FALSE,
\* frame untouched) unless the buffer has exactly the size of the format
unpack_into(f, data, hw_timestamp, fd) ==
    LET n == IF fd THEN 64 ELSE 8
        size == 12 + n + (IF hw_timestamp THEN 4 ELSE 0)
    IN IF Len(data) # size
       THEN [ok |-> FALSE, frame |-> f]
       ELSE [ok |-> TRUE,
             frame |-> [echo_id |-> W32At(data, 0), can_id |-> W32At(data, 4),
                        can_dlc |-> data[9], channel |-> data[10],
                        flags |-> data[11], reserved |-> data[12],
                        data |-> IF fd THEN SubSeq(data, 13, 76)
                                 ELSE SubSeq(data, 13, 20) \o Zeros(56),
                        timestamp_us |-> IF hw_timestamp
                                         THEN W32At(data, 12 + n)
                                         ELSE f.timestamp_us]]

-----------------------------------------------------------------------------
(* The USB transport: one record per call the driver makes on it *)

NoCall ==
    [call |-> "", bmRequestType |-> 0, bRequest |-> 0, wValue |-> 0,
     wIndex |-> 0, data |-> <<>>, length |-> 0, endpoint |-> 0,
     timeout |-> 0, ok |-> TRUE]

\* ctrl_transfer(0x41, request, 0, 0, data)
CtrlOut(request, data, ok) ==
    [NoCall EXCEPT !.call = "ctrl_transfer", !.bmRequestType = HostToDevice,
                   !.bRequest = request, !.data = data, !.length = Len(data),
                   !.ok = ok]

\* ctrl_transfer(0xC1, request, value, index, length)
CtrlIn(request, value, index, length, ok) ==
    [NoCall EXCEPT !.call = "ctrl_transfer", !.bmRequestType = DeviceToHost,
                   !.bRequest = request, !.wValue = value, !.wIndex = index,
                   !.length = length, !.ok = ok]

UsbReset(ok) == [NoCall EXCEPT !.call = "reset", !.ok = ok]

IsKernelDriverActive == [NoCall EXCEPT !.call = "is_kernel_driver_active"]

DetachKernelDriver == [NoCall EXCEPT !.call = "detach_kernel_driver"]

BulkWrite(endpoint, data, ok) ==
    [NoCall EXCEPT !.call = "write", !.endpoint = endpoint, !.data = data,
                   !.length = Len(data), !.ok = ok]

BulkRead(endpoint, size, timeout, ok) ==
    [NoCall EXCEPT !.call = "read", !.endpoint = endpoint, !.length = size,
                   !.timeout = timeout, !.ok = ok]

IsCtrl(c, request) == c.call = "ctrl_transfer" /\ c.bRequest = request

\* how many of the calls in cs are control transfers with this request code
RECURSIVE CountCtrl(_, _)
CountCtrl(cs, request) ==
    IF cs = <<>> THEN 0
    ELSE (IF IsCtrl(Head(cs), request) THEN 1 ELSE 0)
         + CountCtrl(Tail(cs), request)

RECURSIVE CountCall(_, _)
CountCall(cs, name) ==
    IF cs = <<>> THEN 0
    ELSE (IF Head(cs).call = name THEN 1 ELSE 0) + CountCall(Tail(cs), name)

-----------------------------------------------------------------------------
(* The device: its answers to the driver's requests *)



\* feature words: a classic adapter (the five low bits, TRIPLE_SAMPLE among
\* them); a CAN FD adapter with extended bit timing, bus error reporting and
\* GET_STATE; an FD adapter with loop-back and hardware timestamps but
\* neither the extended bit timing request nor GET_STATE
FeatureWords == {31, 13599, 274}

Clocks == {48000000, 80000000, 40000000, 24000000}

\* tseg1_min, tseg1_max, tseg2_min, tseg2_max, sjw_max, brp_min, brp_max, brp_inc
NominalConstraints == {<<1, 16, 1, 8, 4, 1, 1024, 1>>}

DataConstraints == {<<1, 16, 1, 8, 4, 1, 32, 1>>}

\* a device with a narrower controller: phase_seg2 of at least 2 quanta and a
\* prescaler of at most 256 (at most 4 in the data phase), on an 80 MHz clock
TightDevice ==
    [feature |-> 13599, fclk_can |-> 80000000,
     bt |-> <<1, 16, 2, 8, 4, 1, 256, 1>>, dbt |-> <<1, 16, 2, 8, 4, 1, 4, 1>>]

Devices ==
    [feature : FeatureWords, fclk_can : Clocks,
     bt : NominalConstraints, dbt : DataConstraints] \cup {TightDevice}

\* error-active, error-passive with the counters raised, bus-off
HwStates ==
    {[state |-> 0, rxerr |-> 0, txerr |-> 0],
     [state |-> 2, rxerr |-> 130, txerr |-> 96],
     [state |-> 3, rxerr |-> 0, txerr |-> 256]}

\* the clocks of the devices of the session specification
SessionClocks == {40000000}

BtConstResponse(d) == PackWords(<<d.feature, d.fclk_can>> \o d.bt)

BtConstExtResponse(d) == PackWords(<<d.feature, d.fclk_can>> \o d.bt \o d.dbt)

GetStateResponse(hw) == PackWords(<<hw.state, hw.rxerr, hw.txerr>>)

\* the DEVICE_CONFIG response of a two-channel device (icount is the count
\* minus one), firmware version 2, hardware version 1
DeviceConfigResponse == <<0, 0, 0, 1>> \o LE32(2) \o LE32(1)

-----------------------------------------------------------------------------
(* gs_usb.py: the pure parts of GsUsb *)

NoTiming == [is_none |-> TRUE]

\* start without the driver's own mask: whatever the device supports is
\* forwarded
start_flags_device_only(flags, feature) == BitAnd(flags, feature)

\* start, lines 86-96: only features of the device, only features of the driver
start_flags(flags, feature) ==
    BitAnd(BitAnd(flags, feature),
           GS_CAN_MODE_LISTEN_ONLY + GS_CAN_MODE_LOOP_BACK + GS_CAN_MODE_ONE_SHOT
           + GS_CAN_MODE_HW_TIMESTAMP + GS_CAN_MODE_FD)

\* an FD-active bit that, once set by a start, stays set
start_fd_mode_sticky(flags) ==
    fd_mode \/ BitAnd(flags, GS_CAN_MODE_FD) = GS_CAN_MODE_FD

\* an FD-active bit that is set by any effective flag
start_fd_mode_any_flag(flags) == flags # 0

\* start, line 98: the FD-active bit recorded with the effective flags
start_fd_mode(flags) == BitAnd(flags, GS_CAN_MODE_FD) = GS_CAN_MODE_FD

hw_timestamps(flags) ==
    BitAnd(flags, GS_CAN_MODE_HW_TIMESTAMP) = GS_CAN_MODE_HW_TIMESTAMP

\* a solver that computes the prescaler for 16 time quanta instead of looking
\* the bitrate up, rounding down where it does not divide
nominal_timing_computed(clk, sample_point, bitrate) ==
    IF clk \in {48000000, 80000000, 40000000} /\ sample_point = 875
       /\ clk \div (16 * bitrate) > 0
    THEN DeviceBitTiming(1, 12, 2, 1, clk \div (16 * bitrate))
    ELSE NoTiming

\* set_bitrate, lines 120-203: the timing handed to set_timing, or NoTiming
\* where the method returns False
nominal_timing(clk, sample_point, bitrate) ==
    LET prop_seg == 1
        sjw == 1
        T(phase_seg1, phase_seg2, brp) ==
            DeviceBitTiming(prop_seg, phase_seg1, phase_seg2, sjw, brp)
    IN IF clk = 48000000 /\ sample_point = 875
       THEN CASE bitrate = 10000 -> T(12, 2, 300)
              [] bitrate = 20000 -> T(12, 2, 150)
              [] bitrate = 50000 -> T(12, 2, 60)
              [] bitrate = 83333 -> T(12, 2, 36)
              [] bitrate = 100000 -> T(12, 2, 30)
              [] bitrate = 125000 -> T(12, 2, 24)
              [] bitrate = 250000 -> T(12, 2, 12)
              [] bitrate = 500000 -> T(12, 2, 6)
              [] bitrate = 800000 -> T(11, 2, 4)
              [] bitrate = 1000000 -> T(12, 2, 3)
              [] OTHER -> NoTiming
       ELSE IF clk = 80000000 /\ sample_point = 875
       THEN CASE bitrate = 10000 -> T(12, 2, 500)
              [] bitrate = 20000 -> T(12, 2, 250)
              [] bitrate = 50000 -> T(12, 2, 100)
              [] bitrate = 83333 -> T(12, 2, 60)
              [] bitrate = 100000 -> T(12, 2, 50)
              [] bitrate = 125000 -> T(12, 2, 40)
              [] bitrate = 250000 -> T(12, 2, 20)
              [] bitrate = 500000 -> T(12, 2, 10)
              [] bitrate = 800000 -> T(7, 1, 10)
              [] bitrate = 1000000 -> T(12, 2, 5)
              [] OTHER -> NoTiming
       ELSE IF clk = 40000000 /\ sample_point = 875
       THEN CASE bitrate = 10000 -> T(12, 2, 250)
              [] bitrate = 20000 -> T(12, 2, 125)
              [] bitrate = 50000 -> T(12, 2, 50)
              [] bitrate = 83333 -> T(12, 2, 30)
              [] bitrate = 100000 -> T(12, 2, 25)
              [] bitrate = 125000 -> T(12, 2, 20)
              [] bitrate = 250000 -> T(12, 2, 10)
              [] bitrate = 500000 -> T(12, 2, 5)
              [] bitrate = 800000 -> T(7, 1, 5)
              [] bitrate = 1000000 -> T(5, 1, 5)
              [] OTHER -> NoTiming
       ELSE NoTiming

\* a data phase solver that keeps 8 time quanta for every table bitrate and
\* computes the prescaler, rounding down where it does not divide
data_timing_eight_quanta(clk, bitrate) ==
    IF clk \in {80000000, 40000000}
       /\ bitrate \in {2000000, 4000000, 5000000, 8000000}
    THEN DeviceBitTiming(1, 4, 2, 1, clk \div (8 * bitrate))
    ELSE NoTiming

\* set_data_bitrate, lines 244-288: the timing handed to set_data_timing, or
\* NoTiming where the method returns False
data_timing(clk, bitrate) ==
    LET prop_seg == 1
        sjw == 1
        T(phase_seg1, phase_seg2, brp) ==
            DeviceBitTiming(prop_seg, phase_seg1, phase_seg2, sjw, brp)
    IN IF clk = 80000000
       THEN CASE bitrate = 2000000 -> T(4, 2, 5)
              [] bitrate = 4000000 -> T(1, 1, 5)
              [] bitrate = 5000000 -> T(4, 2, 2)
              [] bitrate = 8000000 -> T(2, 1, 2)
              [] OTHER -> NoTiming
       ELSE IF clk = 40000000
       THEN CASE bitrate = 2000000 -> T(6, 2, 2)
              [] bitrate = 4000000 -> T(2, 1, 2)
              [] bitrate = 5000000 -> T(4, 2, 1)
              [] bitrate = 8000000 -> T(2, 1, 1)
              [] bitrate = 10000000 -> T(1, 1, 1)
              [] OTHER -> NoTiming
       ELSE NoTiming

\* set_data_bitrate without its feature check
data_bitrate_allowed_always(feature) == TRUE

\* set_data_bitrate that also asks for the extended-bit-timing feature
data_bitrate_allowed_needs_ext(feature) ==
    /\ BitAnd(feature, GS_CAN_FEATURE_FD) # 0
    /\ BitAnd(feature, GS_CAN_FEATURE_BT_CONST_EXT) # 0

\* set_data_bitrate, lines 240-242
data_bitrate_allowed(feature) == BitAnd(feature, GS_CAN_FEATURE_FD) # 0

\* supports_fd
supports_fd(feature) == BitAnd(feature, GS_CAN_FEATURE_FD) # 0

\* get_state without its feature check
supports_get_state_always(feature) == TRUE

\* supports_get_state
supports_get_state(feature) == BitAnd(feature, GS_CAN_FEATURE_GET_STATE) # 0

\* device_capability without its cache: every access asks the device
device_capability_uncached(cap, d, ok) ==
    IF ok
    THEN [raised |-> FALSE,
          cap |-> DeviceCapability_unpack(BtConstResponse(d)),
          calls |-> <<CtrlIn(GS_USB_BREQ_BT_CONST, 0, 0, 40, TRUE)>>]
    ELSE [raised |-> TRUE, cap |-> cap,
          calls |-> <<CtrlIn(GS_USB_BREQ_BT_CONST, 0, 0, 40, FALSE)>>]

\* the device_capability property on a controller whose cache is cap, attached
\* to device d; ok tells whether the BT_CONST transfer, if made, succeeds
device_capability(cap, d, ok) ==
    IF cap = NoCapability
    THEN IF ok
         THEN [raised |-> FALSE,
               cap |-> DeviceCapability_unpack(BtConstResponse(d)),
               calls |-> <<CtrlIn(GS_USB_BREQ_BT_CONST, 0, 0, 40, TRUE)>>]
         ELSE [raised |-> TRUE, cap |-> cap,
               calls |-> <<CtrlIn(GS_USB_BREQ_BT_CONST, 0, 0, 40, FALSE)>>]
    ELSE [raised |-> FALSE, cap |-> cap, calls |-> <<>>]

\* device_capability_extended without its cache check
extended_cached_never(cap) == FALSE

\* device_capability_extended, line 377: is the extended capability cached
extended_cached(cap) == cap # NoCapability /\ has_fd_timing(cap)

\* stop without its try/except: the transport error reaches the caller
stop_outcome_propagating(ok) == IF ok THEN "None" ELSE "USBError"

\* stop, lines 108-111: how stop ends when its MODE transfer did (ok) or did
\* not succeed
stop_outcome(ok) == "None"

\* read without its try/except: the timeout reaches the caller
read_error_propagates == "USBError"

\* read, lines 318-321: how read ends when the bulk read raised USBError
read_error_outcome == "False"

\* read, lines 325-329: the layout chosen for a received buffer
is_fd_frame(data) ==
    IF Len(data) >= 11 THEN BitAnd(data[11], GS_CAN_FLAG_FD) # 0 ELSE FALSE

-----------------------------------------------------------------------------
(* What callers pass in, and what the bus delivers *)

\* the default of start (NORMAL | HW_TIMESTAMP); FD with loop-back; every
\* mode bit, TRIPLE_SAMPLE and BERR_REPORTING among them
StartFlags == {16, 258, 4383}

TableBitrates ==
    {10000, 20000, 50000, 83333, 100000, 125000, 250000, 500000, 800000, 1000000}

TableDataBitrates == {2000000, 4000000, 5000000, 8000000, 10000000}

Bitrates == TableBitrates \cup {33333, 2000000}

DataBitrates == TableDataBitrates \cup {500000, 12000000}

\* (bitrate, sample point) arguments of set_bitrate: every bitrate at the
\* default sample point, and table bitrates at another one
BitrateArgs == (Bitrates \X {875}) \cup ({500000, 800000} \X {750})

Channels == {0, 1}

Timeouts == {0, 100}

NoFrame == [is_none |-> TRUE]

EmptyFrame == GsUsbFrame(<<0, 0>>, <<>>, FALSE, FALSE)

\* frames the caller builds: a classic frame with an extended identifier, an
\* FD frame with BRS and a 12-byte payload
TxFrames ==
    {GsUsbFrame(<<32768, 291>>, <<17, 34, 51>>, FALSE, FALSE),
     GsUsbFrame(<<0, 291>>, <<1, 2, 3, 4, 5, 6, 7, 8, 9, 10, 11, 12>>, TRUE, TRUE)}

\* frames as the device puts them on the bulk IN endpoint: the echo of a
\* classic transmission, and an FD frame with BRS from the bus
DeviceFrames ==
    {[echo_id |-> <<0, 0>>, can_id |-> <<32768, 291>>, can_dlc |-> 3,
      channel |-> 0, flags |-> 0, reserved |-> 0,
      data |-> <<17, 34, 51>> \o Zeros(61), timestamp_us |-> <<1, 4464>>],
     [echo_id |-> <<65535, 65535>>, can_id |-> <<0, 291>>, can_dlc |-> 9,
      channel |-> 0, flags |-> GS_CAN_FLAG_FD + GS_CAN_FLAG_BRS, reserved |-> 0,
      data |-> <<1, 2, 3, 4, 5, 6, 7, 8, 9, 10, 11, 12>> \o Zeros(52),
      timestamp_us |-> <<2, 1>>]}

\* a frame object as an earlier timestamped read left it
UsedFrame ==
    [echo_id |-> <<65535, 65535>>, can_id |-> <<0, 1999>>, can_dlc |-> 2,
     channel |-> 0, flags |-> 0, reserved |-> 0,
     data |-> <<170, 85>> \o Zeros(62), timestamp_us |-> <<7, 9>>]

\* the buffers a bulk read may return in a session with these flags: every
\* device frame in the session's layout, a classic frame also in the classic
\* layout while the session is FD, and truncated transfers
RxBuffers(hw_timestamp, fd) ==
    LET whole == {pack(g, hw_timestamp, fd).bytes :
                     g \in {h \in DeviceFrames : fd \/ ~is_fd(h)}}
        classic == {pack(g, hw_timestamp, FALSE).bytes :
                       g \in {h \in DeviceFrames : ~is_fd(h)}}
    IN whole \cup classic
       \cup {SubSeq(b, 1, 12) : b \in classic} \cup {SubSeq(b, 1, 4) : b \in classic}

\* which transport call of an operation raises USBError, if it is made
FailPoints == {"none", "reset", "bt_const", "transfer"}

\* start also calls is_kernel_driver_active and detach_kernel_driver, and
\* either may raise
StartFailPoints ==
    FailPoints \cup {"is_kernel_driver_active", "detach_kernel_driver"}

Ret(status, value) == [status |-> status, value |-> value]

-----------------------------------------------------------------------------
(* The controller after GsUsb.__init__, attached to a device of Ds *)

InitOn(Ds) ==
    /\ dev \in Ds
    /\ hw_state = [state |-> 0, rxerr |-> 0, txerr |-> 0]
    /\ capability = NoCapability
    /\ device_flags = 0
    /\ fd_mode = FALSE
    /\ frame = NoFrame
    /\ op = [name |-> "__init__", args |-> <<>>]
    /\ result = Ret("None", <<>>)
    /\ calls = <<>>
    /\ before = session
    /\ n_get_state = 0
    /\ n_state_xfers = 0
    /\ n_ext_xfers = 0

\* GsUsb.start(flags), flags drawn from Fs
start(Fs) ==
    \E flags \in Fs, fail \in StartFailPoints,
       kernel \in {<<>>, <<IsKernelDriverActive>>,
                   <<IsKernelDriverActive, DetachKernelDriver>>} :
        LET c == device_capability(capability, dev, fail # "bt_const")
            eff == start_flags(flags, c.cap.feature)
            okMode == fail # "transfer"
        IN /\ op' = [name |-> "start", args |-> <<flags>>]
           /\ before' = session
           /\ IF fail = "reset"
              THEN /\ calls' = <<UsbReset(FALSE)>>
                   /\ result' = Ret("USBError", <<>>)
                   /\ UNCHANGED <<capability, device_flags, fd_mode>>
              ELSE IF fail = "is_kernel_driver_active" /\ kernel # <<>>
              THEN /\ calls' = <<UsbReset(TRUE),
                                 [IsKernelDriverActive EXCEPT !.ok = FALSE]>>
                   /\ result' = Ret("USBError", <<>>)
                   /\ UNCHANGED <<capability, device_flags, fd_mode>>
              ELSE IF fail = "detach_kernel_driver" /\ Len(kernel) = 2
              THEN /\ calls' = <<UsbReset(TRUE), IsKernelDriverActive,
                                 [DetachKernelDriver EXCEPT !.ok = FALSE]>>
                   /\ result' = Ret("USBError", <<>>)
                   /\ UNCHANGED <<capability, device_flags, fd_mode>>
              ELSE IF c.raised
              THEN /\ calls' = <<UsbReset(TRUE)>> \o kernel \o c.calls
                   /\ result' = Ret("USBError", <<>>)
                   /\ UNCHANGED <<capability, device_flags, fd_mode>>
              ELSE /\ capability' = c.cap
                   /\ device_flags' = eff
                   /\ fd_mode' = start_fd_mode(eff)
                   /\ calls' = <<UsbReset(TRUE)>> \o kernel \o c.calls
                               \o <<CtrlOut(GS_USB_BREQ_MODE,
                                            DeviceMode_pack(GS_CAN_MODE_START, eff),
                                            okMode)>>
                   /\ result' = IF okMode THEN Ret("None", <<>>)
                                ELSE Ret("USBError", <<>>)
           /\ frame' = NoFrame
           /\ UNCHANGED <<dev, hw_state, n_get_state, n_state_xfers, n_ext_xfers>>

\* GsUsb.stop()
stop ==
    \E ok \in BOOLEAN :
        /\ op' = [name |-> "stop", args |-> <<>>]
        /\ before' = session
        /\ calls' = <<CtrlOut(GS_USB_BREQ_MODE,
                              DeviceMode_pack(GS_CAN_MODE_RESET, 0), ok)>>
        /\ result' = Ret(stop_outcome(ok), <<>>)
        /\ frame' = NoFrame
        /\ UNCHANGED <<dev, hw_state, capability, device_flags, fd_mode,
                       n_get_state, n_state_xfers, n_ext_xfers>>

\* GsUsb.set_bitrate(bitrate, sample_point), with set_timing; the arguments
\* are drawn from As
set_bitrate(As) ==
    \E a \in As, fail \in FailPoints \ {"reset"} :
        LET bitrate == a[1]
            sample_point == a[2]
            c == device_capability(capability, dev, fail # "bt_const")
            t == nominal_timing(c.cap.fclk_can, sample_point, bitrate)
            okXfer == fail # "transfer"
        IN /\ op' = [name |-> "set_bitrate", args |-> <<bitrate, sample_point>>]
           /\ before' = session
           /\ capability' = c.cap
           /\ IF c.raised
              THEN calls' = c.calls /\ result' = Ret("USBError", <<>>)
              ELSE IF t = NoTiming
              THEN calls' = c.calls /\ result' = Ret("False", <<>>)
              ELSE /\ calls' = c.calls
                               \o <<CtrlOut(GS_USB_BREQ_BITTIMING,
                                            DeviceBitTiming_pack(t), okXfer)>>
                   /\ result' = IF okXfer THEN Ret("True", <<>>)
                                ELSE Ret("USBError", <<>>)
           /\ frame' = NoFrame
           /\ UNCHANGED <<dev, hw_state, device_flags, fd_mode,
                          n_get_state, n_state_xfers, n_ext_xfers>>

\* GsUsb.set_data_bitrate(bitrate), with set_data_timing; bitrate drawn from Bs
set_data_bitrate(Bs) ==
    \E bitrate \in Bs, fail \in FailPoints \ {"reset"} :
        LET c == device_capability(capability, dev, fail # "bt_const")
            t == data_timing(c.cap.fclk_can, bitrate)
            okXfer == fail # "transfer"
        IN /\ op' = [name |-> "set_data_bitrate", args |-> <<bitrate>>]
           /\ before' = session
           /\ capability' = c.cap
           /\ IF c.raised
              THEN calls' = c.calls /\ result' = Ret("USBError", <<>>)
              ELSE IF ~data_bitrate_allowed(c.cap.feature) \/ t = NoTiming
              THEN calls' = c.calls /\ result' = Ret("False", <<>>)
              ELSE /\ calls' = c.calls
                               \o <<CtrlOut(GS_USB_BREQ_DATA_BITTIMING,
                                            DeviceBitTiming_pack(t), okXfer)>>
                   /\ result' = IF okXfer THEN Ret("True", <<>>)
                                ELSE Ret("USBError", <<>>)
           /\ frame' = NoFrame
           /\ UNCHANGED <<dev, hw_state, device_flags, fd_mode,
                          n_get_state, n_state_xfers, n_ext_xfers>>

\* GsUsb.send(frame): the caller passes a frame it built or one it received
send ==
    \E f \in TxFrames \cup {UsedFrame}, ok \in BOOLEAN :
        LET p == pack(f, hw_timestamps(device_flags), fd_mode)
        IN /\ op' = [name |-> "send", args |-> <<f>>]
           /\ before' = session
           /\ frame' = f
           /\ IF ~p.ok
              THEN calls' = <<>> /\ result' = Ret("struct.error", <<>>)
              ELSE /\ calls' = <<BulkWrite(EndpointOut, p.bytes, ok)>>
                   /\ result' = IF ok THEN Ret("True", <<>>)
                                ELSE Ret("USBError", <<>>)
           /\ UNCHANGED <<dev, hw_state, capability, device_flags, fd_mode,
                          n_get_state, n_state_xfers, n_ext_xfers>>

\* GsUsb.read(frame, timeout_ms): the caller passes an empty frame or the
\* frame object of an earlier read; the bulk read raises USBError (a timeout
\* among them) or returns one of the buffers the bus may deliver
read ==
    \E f \in {EmptyFrame, UsedFrame}, timeout_ms \in Timeouts :
        LET hw == hw_timestamps(device_flags)
            max_size == frame_sizeof(hw, fd_mode)
        IN /\ op' = [name |-> "read", args |-> <<f, timeout_ms>>]
           /\ before' = session
           /\ \/ /\ calls' = <<BulkRead(EndpointIn, max_size, timeout_ms, FALSE)>>
                 /\ result' = Ret(read_error_outcome, <<>>)
                 /\ frame' = f
              \/ \E data \in RxBuffers(hw, fd_mode) :
                    LET u == unpack_into(f, data, hw, is_fd_frame(data))
                    IN /\ calls' = <<[BulkRead(EndpointIn, max_size, timeout_ms, TRUE)
                                        EXCEPT !.data = data]>>
                       /\ frame' = u.frame
                       /\ result' = IF u.ok THEN Ret("True", <<>>)
                                    ELSE Ret("struct.error", <<>>)
           /\ UNCHANGED <<dev, hw_state, capability, device_flags, fd_mode,
                          n_get_state, n_state_xfers, n_ext_xfers>>

\* a GET_STATE transfer that carries the channel in the index field
get_state_request_by_index(channel, ok) ==
    CtrlIn(GS_USB_BREQ_GET_STATE, 0, channel, 12, ok)

\* get_state, line 408: ctrl_transfer(0xC1, GET_STATE, channel, 0, 12)
get_state_request(channel, ok) ==
    CtrlIn(GS_USB_BREQ_GET_STATE, channel, 0, 12, ok)

\* the GsUsb.device_info property: one DEVICE_CONFIG transfer per access
device_info ==
    \E ok \in BOOLEAN :
        /\ op' = [name |-> "device_info", args |-> <<>>]
        /\ before' = session
        /\ calls' = <<CtrlIn(GS_USB_BREQ_DEVICE_CONFIG, 0, 0, 12, ok)>>
        /\ result' = IF ok
                     THEN Ret("DeviceInfo", DeviceInfo_unpack(DeviceConfigResponse))
                     ELSE Ret("USBError", <<>>)
        /\ frame' = NoFrame
        /\ UNCHANGED <<dev, hw_state, capability, device_flags, fd_mode,
                       n_get_state, n_state_xfers, n_ext_xfers>>

\* GsUsb.get_state(channel)
get_state ==
    \E channel \in Channels, fail \in FailPoints \ {"reset"} :
        LET c == device_capability(capability, dev, fail # "bt_const")
            okXfer == fail # "transfer"
        IN /\ op' = [name |-> "get_state", args |-> <<channel>>]
           /\ before' = session
           /\ capability' = c.cap
           /\ IF c.raised
              THEN /\ calls' = c.calls
                   /\ result' = Ret("USBError", <<>>)
                   /\ UNCHANGED <<n_get_state, n_state_xfers>>
              ELSE IF ~supports_get_state(c.cap.feature)
              THEN /\ calls' = c.calls
                   /\ result' = Ret("ValueError", <<>>)
                   /\ UNCHANGED <<n_get_state, n_state_xfers>>
              ELSE /\ n_get_state < MaxGetState
                   /\ n_get_state' = n_get_state + 1
                   /\ n_state_xfers' = n_state_xfers + 1
                   /\ calls' = c.calls \o <<get_state_request(channel, okXfer)>>
                   /\ result' = IF okXfer
                                THEN Ret("DeviceState",
                                         DeviceState_unpack(GetStateResponse(hw_state)))
                                ELSE Ret("USBError", <<>>)
           /\ frame' = NoFrame
           /\ UNCHANGED <<dev, hw_state, device_flags, fd_mode, n_ext_xfers>>

\* the GsUsb.device_capability property, read by the caller
get_device_capability ==
    \E fail \in {"none", "bt_const"} :
        LET c == device_capability(capability, dev, fail # "bt_const")
        IN /\ op' = [name |-> "device_capability", args |-> <<>>]
           /\ before' = session
           /\ capability' = c.cap
           /\ calls' = c.calls
           /\ result' = IF c.raised THEN Ret("USBError", <<>>)
                        ELSE Ret("DeviceCapability", c.cap)
           /\ frame' = NoFrame
           /\ UNCHANGED <<dev, hw_state, device_flags, fd_mode,
                          n_get_state, n_state_xfers, n_ext_xfers>>

\* the GsUsb.supports_fd property: reads device_capability, which fetches and
\* caches it when it is not cached yet
get_supports_fd ==
    \E fail \in {"none", "bt_const"} :
        LET c == device_capability(capability, dev, fail # "bt_const")
        IN /\ op' = [name |-> "supports_fd", args |-> <<>>]
           /\ before' = session
           /\ capability' = c.cap
           /\ calls' = c.calls
           /\ result' = IF c.raised THEN Ret("USBError", <<>>)
                        ELSE IF supports_fd(c.cap.feature) THEN Ret("True", <<>>)
                        ELSE Ret("False", <<>>)
           /\ frame' = NoFrame
           /\ UNCHANGED <<dev, hw_state, device_flags, fd_mode,
                          n_get_state, n_state_xfers, n_ext_xfers>>

\* the GsUsb.supports_get_state property, read on its own
get_supports_get_state ==
    \E fail \in {"none", "bt_const"} :
        LET c == device_capability(capability, dev, fail # "bt_const")
        IN /\ op' = [name |-> "supports_get_state", args |-> <<>>]
           /\ before' = session
           /\ capability' = c.cap
           /\ calls' = c.calls
           /\ result' = IF c.raised THEN Ret("USBError", <<>>)
                        ELSE IF supports_get_state(c.cap.feature)
                        THEN Ret("True", <<>>)
                        ELSE Ret("False", <<>>)
           /\ frame' = NoFrame
           /\ UNCHANGED <<dev, hw_state, device_flags, fd_mode,
                          n_get_state, n_state_xfers, n_ext_xfers>>

\* the GsUsb.device_capability_extended property
device_capability_extended ==
    \E fail \in FailPoints \ {"reset"} :
        LET c == device_capability(capability, dev, fail # "bt_const")
            okExt == fail # "transfer"
        IN /\ op' = [name |-> "device_capability_extended", args |-> <<>>]
           /\ before' = session
           /\ IF c.raised
              THEN /\ capability' = c.cap
                   /\ calls' = c.calls
                   /\ result' = Ret("USBError", <<>>)
                   /\ UNCHANGED n_ext_xfers
              ELSE IF BitAnd(c.cap.feature, GS_CAN_FEATURE_BT_CONST_EXT) = 0
              THEN /\ capability' = c.cap
                   /\ calls' = c.calls
                   /\ result' = Ret("None", <<>>)
                   /\ UNCHANGED n_ext_xfers
              ELSE IF extended_cached(c.cap)
              THEN /\ capability' = c.cap
                   /\ calls' = c.calls
                   /\ result' = Ret("DeviceCapability", c.cap)
                   /\ UNCHANGED n_ext_xfers
              ELSE /\ calls' = c.calls
                               \o <<CtrlIn(GS_USB_BREQ_BT_CONST_EXT, 0, 0, 72, okExt)>>
                   /\ IF okExt
                      THEN LET e == DeviceCapability_unpack_extended(
                                        BtConstExtResponse(dev))
                           IN /\ n_ext_xfers < MaxExtFetch
                              /\ n_ext_xfers' = n_ext_xfers + 1
                              /\ capability' = e
                              /\ result' = Ret("DeviceCapability", e)
                      ELSE /\ capability' = c.cap
                           /\ result' = Ret("USBError", <<>>)
                           /\ UNCHANGED n_ext_xfers
           /\ frame' = NoFrame
           /\ UNCHANGED <<dev, hw_state, device_flags, fd_mode,
                          n_get_state, n_state_xfers>>

\* the bus: the device's CAN state and error counters move; no operation of
\* the controller is involved
bus_event ==
    /\ hw_state' \in HwStates \ {hw_state}
    /\ op' = [name |-> "bus_event", args |-> <<>>]
    /\ before' = session
    /\ result' = Ret("None", <<>>)
    /\ calls' = <<>>
    /\ frame' = NoFrame
    /\ UNCHANGED <<dev, capability, device_flags, fd_mode,
                   n_get_state, n_state_xfers, n_ext_xfers>>

-----------------------------------------------------------------------------
(* The session specification: every operation of the controller, on devices *)
(* of every feature word, with a few bitrates                               *)

Init == InitOn({d \in Devices : d.fclk_can \in SessionClocks})

Next ==
    \/ start(StartFlags)
    \/ stop
    \/ set_bitrate({<<500000, 875>>, <<33333, 875>>})
    \/ set_data_bitrate({2000000, 500000})
    \/ send
    \/ read
    \/ get_state
    \/ get_device_capability
    \/ device_capability_extended
    \/ device_info
    \/ get_supports_fd
    \/ get_supports_get_state
    \/ bus_event

Spec == Init /\ [][Next]_vars

(* The timing specification: every clock and every bitrate, on a controller *)
(* that is started, stopped and queried in between                          *)

InitTiming == InitOn(Devices)

NextTiming ==
    \/ set_bitrate(BitrateArgs)
    \/ set_data_bitrate(DataBitrates)
    \/ start({272})
    \/ stop
    \/ get_device_capability
    \/ device_capability_extended

SpecTiming == InitTiming /\ [][NextTiming]_vars

TypeOK ==
    /\ device_flags \in 0..511
    /\ fd_mode \in BOOLEAN
    /\ n_get_state \in 0..MaxGetState
    /\ n_ext_xfers \in 0..MaxExtFetch

-----------------------------------------------------------------------------
(* The codec specification: the frame constructor, pack, unpack_into, the   *)
(* identifier properties and the two DLC conversions, called on their own   *)

\* the largest length len_to_dlc is called with, and the largest DLC
\* dlc_to_len is called with
MaxLength == 66
MaxDlc == 16

\* identifier words: extended, remote and error flags over 0x123, a standard
\* identifier word with bits above the 11th set (0x00012345), 0x9FFFFFFF,
\* 0xFFFFFFFF, 0x7FF
CodecIds ==
    {<<32768, 291>>, <<16384, 291>>, <<8192, 291>>, <<0, 291>>, <<1, 9029>>,
     <<40959, 65535>>, <<65535, 65535>>, <<0, 2047>>}

\* payload lengths: every classic length and one beyond 8; every CAN FD
\* table length, lengths between two table entries and one beyond 64
ClassicLengths == 0..9
FdLengths == (0..9) \cup {12, 16, 20, 24, 32, 48, 63, 64, 65}

Payload(n) == [i \in 1..n |-> i]

\* arguments of the constructor: <<can_id, data, fd, brs>>
FrameArgs ==
    (CodecIds \X {Payload(3)} \X {FALSE} \X {FALSE})
    \cup ({<<0, 291>>} \X {Payload(n) : n \in ClassicLengths} \X {FALSE} \X BOOLEAN)
    \cup ({<<32768, 291>>} \X {Payload(n) : n \in FdLengths} \X {TRUE} \X BOOLEAN)

\* GsUsbFrame(can_id, data, fd, brs)
new_frame ==
    \E a \in FrameArgs :
        /\ op' = [name |-> "GsUsbFrame", args |-> a]
        /\ frame' = GsUsbFrame(a[1], a[2], a[3], a[4])
        /\ result' = Ret("None", <<>>)
        /\ before' = session
        /\ UNCHANGED <<dev, hw_state, capability, device_flags, fd_mode, calls,
                       n_get_state, n_state_xfers, n_ext_xfers>>

\* frame.pack(hw_timestamp, fd_mode), on a frame the constructor built or one
\* unpack_into filled
frame_pack ==
    \E hw \in BOOLEAN, fd \in BOOLEAN :
        LET p == pack(frame, hw, fd)
        IN /\ frame # NoFrame
           /\ op' = [name |-> "pack", args |-> <<hw, fd>>]
           /\ result' = IF p.ok THEN Ret("bytes", p.bytes)
                        ELSE Ret("struct.error", <<>>)
           /\ before' = session
           /\ UNCHANGED <<dev, hw_state, capability, device_flags, fd_mode, calls,
                          frame, n_get_state, n_state_xfers, n_ext_xfers>>

\* GsUsbFrame.unpack_into(target, data, hw_timestamp, fd_mode) on the bytes
\* the preceding pack returned
frame_unpack_into ==
    \E target \in {EmptyFrame, UsedFrame}, hw \in BOOLEAN, fd \in BOOLEAN :
        LET u == unpack_into(target, result.value, hw, fd)
        IN /\ op.name = "pack"
           /\ result.status = "bytes"
           /\ op' = [name |-> "unpack_into",
                     args |-> <<target, result.value, hw, fd>>]
           /\ frame' = u.frame
           /\ result' = IF u.ok THEN Ret("None", <<>>)
                        ELSE Ret("struct.error", <<>>)
           /\ before' = session
           /\ UNCHANGED <<dev, hw_state, capability, device_flags, fd_mode, calls,
                          n_get_state, n_state_xfers, n_ext_xfers>>

\* the identifier properties of a frame, read together
id_properties ==
    /\ frame # NoFrame
    /\ op' = [name |-> "id_properties", args |-> <<frame.can_id>>]
    /\ result' = Ret("properties",
                     [arbitration_id |-> arbitration_id(frame),
                      is_extended_id |-> is_extended_id(frame),
                      is_remote_frame |-> is_remote_frame(frame),
                      is_error_frame |-> is_error_frame(frame)])
    /\ before' = session
    /\ UNCHANGED <<dev, hw_state, capability, device_flags, fd_mode, calls,
                   frame, n_get_state, n_state_xfers, n_ext_xfers>>

\* len_to_dlc(length, fd)
call_len_to_dlc ==
    \E length \in 0..MaxLength, fd \in BOOLEAN :
        /\ op' = [name |-> "len_to_dlc", args |-> <<length, fd>>]
        /\ result' = Ret("int", len_to_dlc(length, fd))
        /\ frame' = NoFrame
        /\ before' = session
        /\ UNCHANGED <<dev, hw_state, capability, device_flags, fd_mode, calls,
                       n_get_state, n_state_xfers, n_ext_xfers>>

\* dlc_to_len(dlc, fd)
call_dlc_to_len ==
    \E dlc \in 0..MaxDlc, fd \in BOOLEAN :
        /\ op' = [name |-> "dlc_to_len", args |-> <<dlc, fd>>]
        /\ result' = Ret("int", dlc_to_len(dlc, fd))
        /\ frame' = NoFrame
        /\ before' = session
        /\ UNCHANGED <<dev, hw_state, capability, device_flags, fd_mode, calls,
                       n_get_state, n_state_xfers, n_ext_xfers>>

InitCodec == InitOn({d \in Devices : d.fclk_can = 40000000 /\ d.feature = 274})

NextCodec ==
    \/ new_frame
    \/ frame_pack
    \/ frame_unpack_into
    \/ id_properties
    \/ call_len_to_dlc
    \/ call_dlc_to_len

SpecCodec == InitCodec /\ [][NextCodec]_vars

-----------------------------------------------------------------------------
(* Vocabulary of the properties *)

RECURSIVE Pow2(_)
Pow2(i) == IF i = 0 THEN 1 ELSE 2 * Pow2(i - 1)

\* bit i of the natural n
Bit(n, i) == (n \div Pow2(i)) % 2

\* the bit positions of LISTEN_ONLY, LOOP_BACK, ONE_SHOT, HW_TIMESTAMP, FD
DriverModeBits == {0, 1, 3, 4, 8}

FlagBits == 0..13

AllOk(cs) == \A i \in 1..Len(cs) : cs[i].ok

LastCall == calls[Len(calls)]

\* the frame size of a session, from its recorded flags
LayoutSize(flags, fd) ==
    12 + (IF fd THEN 64 ELSE 8) + (IF Bit(flags, 4) = 1 THEN 4 ELSE 0)

-----------------------------------------------------------------------------
(* C1: whenever start(requested) issues its MODE(START) control transfer on *)
(* a device reporting feature word F, the flags word of the payload and the *)
(* recorded device_flags both have exactly the bits that are set in         *)
(* requested, set in F and among LISTEN_ONLY, LOOP_BACK, ONE_SHOT,          *)
(* HW_TIMESTAMP, FD; no other bit (TRIPLE_SAMPLE, BERR_REPORTING) is        *)
(* forwarded.                                                               *)
C1_EffectiveFlags ==
    (op.name = "start" /\ CountCtrl(calls, GS_USB_BREQ_MODE) > 0) =>
        /\ CountCtrl(calls, GS_USB_BREQ_MODE) = 1
        /\ LastCall.bmRequestType = HostToDevice
        /\ LastCall.bRequest = GS_USB_BREQ_MODE
        /\ Len(LastCall.data) = 8
        /\ U32At(LastCall.data, 0) = GS_CAN_MODE_START
        /\ U32At(LastCall.data, 4) = device_flags
        /\ \A i \in FlagBits :
              Bit(device_flags, i) = 1 <=>
                  /\ Bit(op.args[1], i) = 1
                  /\ Bit(dev.feature, i) = 1
                  /\ i \in DriverModeBits
        /\ device_flags < Pow2(14)

\* a start that asked for every mode bit on a device that supports TRIPLE_SAMPLE
\* and BERR_REPORTING too: only the five driver bits went out
C1_Witness ==
    /\ op.name = "start"
    /\ op.args[1] = 4383
    /\ dev.feature = 13599
    /\ result.status = "None"
    /\ device_flags = 283
    /\ U32At(LastCall.data, 4) = 283

(* C2: stop(), in whatever state it is called, issues exactly one control   *)
(* transfer, MODE (request 2, direction 0x41) with mode = RESET and         *)
(* flags = 0, and returns normally whether or not that transfer raised.     *)
C2_StopBestEffort ==
    op.name = "stop" =>
        /\ Len(calls) = 1
        /\ calls[1].call = "ctrl_transfer"
        /\ calls[1].bmRequestType = 65
        /\ calls[1].bRequest = 2
        /\ calls[1].wValue = 0
        /\ calls[1].wIndex = 0
        /\ calls[1].data = <<0, 0, 0, 0, 0, 0, 0, 0>>
        /\ result.status = "None"
        /\ session = before

\* a stop on a started FD session whose MODE transfer raised
C2_Witness ==
    /\ op.name = "stop"
    /\ ~calls[1].ok
    /\ result.status = "None"
    /\ fd_mode

-----------------------------------------------------------------------------
(* The bitrate tables as the documentation states them *)

InNominalTable(clk, bitrate, sample_point) ==
    /\ clk \in {48000000, 80000000, 40000000}
    /\ sample_point = 875
    /\ bitrate \in {10000, 20000, 50000, 83333, 100000, 125000, 250000,
                    500000, 800000, 1000000}

InDataTable(clk, bitrate) ==
    \/ clk = 80000000 /\ bitrate \in {2000000, 4000000, 5000000, 8000000}
    \/ clk = 40000000
       /\ bitrate \in {2000000, 4000000, 5000000, 8000000, 10000000}

\* the one transport call an operation makes when the capability is not
\* cached yet: BT_CONST, request 4, device to host, 40 bytes
IsBtConstFetch(c) ==
    /\ c.call = "ctrl_transfer"
    /\ c.bmRequestType = 193
    /\ c.bRequest = 4
    /\ c.length = 40

\* the capability the device reports over BT_CONST
BaseCapabilityOf(d) ==
    /\ capability # NoCapability
    /\ capability.feature = d.feature
    /\ capability.fclk_can = d.fclk_can
    /\ capability.dtseg1_min = NoneInt

UnsupportedBitrateCall ==
    /\ op.name = "set_bitrate"
    /\ ~InNominalTable(dev.fclk_can, op.args[1], op.args[2])

(* C3, as claimed: set_bitrate for a (clock, bitrate) combination without a *)
(* table entry returns False having issued no transport call and having     *)
(* changed no session state, in every state, the first call on a freshly    *)
(* opened controller included. Stated for calls in which no transport call  *)
(* raised.                                                                  *)
C3_Original ==
    (UnsupportedBitrateCall /\ AllOk(calls)) =>
        /\ result.status = "False"
        /\ calls = <<>>
        /\ session = before

(* C3, amended: set_bitrate for a combination without a table entry never   *)
(* issues a BITTIMING transfer and never changes the recorded flags or the  *)
(* FD-active bit. With the capability cached it returns False with no       *)
(* transport call and no change of session state. With the capability not   *)
(* cached yet (the first call on a freshly opened controller) it issues     *)
(* exactly one BT_CONST transfer: when that succeeds the capability is      *)
(* cached and the call returns False, when it raises the error propagates   *)
(* and the session is unchanged.                                            *)
C3_UnsupportedBitrate ==
    UnsupportedBitrateCall =>
        /\ device_flags = before.device_flags
        /\ fd_mode = before.fd_mode
        /\ CountCtrl(calls, 1) = 0
        /\ IF before.capability # NoCapability
           THEN /\ result.status = "False"
                /\ calls = <<>>
                /\ session = before
           ELSE /\ Len(calls) = 1
                /\ IsBtConstFetch(calls[1])
                /\ IF calls[1].ok
                   THEN result.status = "False" /\ BaseCapabilityOf(dev)
                   ELSE result.status = "USBError" /\ session = before

\* an unsupported bitrate at a supported clock, asked of a started controller
\* whose capability is cached
C3_Witness ==
    /\ op.name = "set_bitrate"
    /\ op.args = <<33333, 875>>
    /\ dev.fclk_can = 48000000
    /\ before.capability # NoCapability
    /\ device_flags # 0
    /\ result.status = "False"
    /\ calls = <<>>

(* C4: the solver never approximates. A set_bitrate call returns True only  *)
(* for a clock of 48, 80 or 40 MHz with one of the ten table bitrates at    *)
(* the default sample point, and a set_data_bitrate call only on an         *)
(* FD-capable device for an entry of the 80 MHz or 40 MHz data table; such  *)
(* a call does return True when none of its transport calls raises. For     *)
(* every other pair the call never returns True, returns False when no      *)
(* transport call raises, and issues neither BITTIMING nor DATA_BITTIMING.  *)
C4_NoApproximation ==
    LET supported ==
            IF op.name = "set_bitrate"
            THEN InNominalTable(dev.fclk_can, op.args[1], op.args[2])
            ELSE Bit(dev.feature, 8) = 1 /\ InDataTable(dev.fclk_can, op.args[1])
        request == IF op.name = "set_bitrate" THEN 1 ELSE 10
    IN op.name \in {"set_bitrate", "set_data_bitrate"} =>
        /\ result.status \in {"True", "False", "USBError"}
        /\ result.status = "True" => supported /\ AllOk(calls)
        /\ result.status = "False" => ~supported /\ AllOk(calls)
        /\ result.status = "USBError" => ~AllOk(calls)
        /\ ~supported => CountCtrl(calls, request) = 0
        /\ result.status = "True" => CountCtrl(calls, request) = 1
        /\ CountCtrl(calls, 11 - request) = 0

\* 10 Mbit/s is in the 40 MHz data table only: on an FD device clocked at
\* 80 MHz it is refused, not rounded
C4_Witness ==
    /\ op.name = "set_data_bitrate"
    /\ op.args = <<10000000>>
    /\ dev.fclk_can = 80000000
    /\ Bit(dev.feature, 8) = 1
    /\ before.capability # NoCapability
    /\ result.status = "False"
    /\ calls = <<>>

(* C5: on a device whose feature word lacks the FD bit, set_data_bitrate    *)
(* returns False for every clock and bitrate, entries of the data tables    *)
(* included, the one exception being a call whose capability fetch raised;  *)
(* it issues no DATA_BITTIMING (request 10) transfer and no transfer other  *)
(* than that fetch.                                                         *)
C5_NoFdNoDataBitrate ==
    (op.name = "set_data_bitrate" /\ Bit(dev.feature, 8) = 0) =>
        /\ CountCtrl(calls, 10) = 0
        /\ \A i \in 1..Len(calls) : IsBtConstFetch(calls[i])
        /\ Len(calls) <= 1
        /\ AllOk(calls) => result.status = "False"
        /\ result.status \in {"False", "USBError"}
        /\ device_flags = before.device_flags
        /\ fd_mode = before.fd_mode

\* 2 Mbit/s at 80 MHz is in the data table, and the classic device is refused
C5_Witness ==
    /\ op.name = "set_data_bitrate"
    /\ op.args = <<2000000>>
    /\ dev.fclk_can = 80000000
    /\ dev.feature = 31
    /\ result.status = "False"
    /\ calls = <<>>

-----------------------------------------------------------------------------
\* a get_state call on a device whose feature word lacks the GET_STATE bit
GetStateUnsupportedCall ==
    /\ op.name = "get_state"
    /\ Bit(dev.feature, 13) = 0

(* C6, as claimed: get_state on a device whose feature word lacks the       *)
(* GET_STATE bit fails with ValueError without issuing any transport call,  *)
(* in every state, the first operation on a freshly opened controller       *)
(* included. Stated for calls in which no transport call raised.            *)
C6_Original ==
    (GetStateUnsupportedCall /\ AllOk(calls)) =>
        /\ result.status = "ValueError"
        /\ calls = <<>>

(* C6, amended: get_state on a device whose feature word lacks the          *)
(* GET_STATE bit never issues a GET_STATE transfer, never returns a state   *)
(* and never changes the recorded flags or the FD-active bit. With the      *)
(* capability cached it fails with ValueError, with no transport call and   *)
(* no change of session state. With the capability not cached yet (the      *)
(* first operation on a freshly opened controller) it issues exactly one    *)
(* BT_CONST transfer: when that succeeds the capability is cached and the   *)
(* call fails with ValueError, when it raises the USBError propagates and   *)
(* the session is unchanged.                                                *)
C6_GetStateUnsupported ==
    GetStateUnsupportedCall =>
        /\ CountCtrl(calls, 14) = 0
        /\ result.status # "DeviceState"
        /\ device_flags = before.device_flags
        /\ fd_mode = before.fd_mode
        /\ IF before.capability # NoCapability
           THEN /\ result.status = "ValueError"
                /\ calls = <<>>
                /\ session = before
           ELSE /\ Len(calls) = 1
                /\ IsBtConstFetch(calls[1])
                /\ IF calls[1].ok
                   THEN result.status = "ValueError" /\ BaseCapabilityOf(dev)
                   ELSE result.status = "USBError" /\ session = before

\* get_state refused on a started controller whose capability is cached
C6_Witness ==
    /\ GetStateUnsupportedCall
    /\ before.capability # NoCapability
    /\ device_flags # 0
    /\ result.status = "ValueError"
    /\ calls = <<>>

(* C7: device state is never cached. On a device reporting GET_STATE every  *)
(* get_state call whose capability fetch did not raise issues exactly one   *)
(* GET_STATE control transfer (request 14, direction 0xC1, 12 bytes), as    *)
(* its last transport call, and when that transfer is answered returns the  *)
(* state and the RX and TX error counters the device has at that moment;    *)
(* the number of GET_STATE transfers issued equals the number of such       *)
(* calls.                                                                   *)
C7_StateNeverCached ==
    /\ n_state_xfers = n_get_state
    /\ (op.name = "get_state" /\ Bit(dev.feature, 13) = 1
          /\ ~(Len(calls) > 0 /\ IsBtConstFetch(calls[1]) /\ ~calls[1].ok)) =>
        /\ CountCtrl(calls, 14) = 1
        /\ LastCall.call = "ctrl_transfer"
        /\ LastCall.bmRequestType = 193
        /\ LastCall.bRequest = 14
        /\ LastCall.length = 12
        /\ \A i \in 1..(Len(calls) - 1) : IsBtConstFetch(calls[i])
        /\ Len(calls) <= 2
        /\ IF LastCall.ok
           THEN /\ result.status = "DeviceState"
                /\ result.value.state = hw_state.state
                /\ result.value.rxerr = hw_state.rxerr
                /\ result.value.txerr = hw_state.txerr
           ELSE result.status = "USBError"
        /\ device_flags = before.device_flags
        /\ fd_mode = before.fd_mode

\* the second get_state of a session, with the capability long cached, reads
\* a bus-off state with distinct RX and TX counters from its own transfer
C7_Witness ==
    /\ op.name = "get_state"
    /\ n_get_state = 2
    /\ n_state_xfers = 2
    /\ before.capability # NoCapability
    /\ Len(calls) = 1
    /\ result.status = "DeviceState"
    /\ result.value.state = 3
    /\ result.value.rxerr # result.value.txerr

\* the extended capability the device reports over BT_CONST_EXT
ExtendedCapabilityOf(cap, d) ==
    /\ cap # NoCapability
    /\ cap.feature = d.feature
    /\ cap.fclk_can = d.fclk_can
    /\ cap.dtseg1_min = d.dbt[1]
    /\ cap.dbrp_max = d.dbt[7]

\* the BT_CONST_EXT transfer: request 11, device to host, 72 bytes
IsBtConstExtFetch(c) ==
    /\ c.call = "ctrl_transfer"
    /\ c.bmRequestType = 193
    /\ c.bRequest = 11
    /\ c.length = 72

(* C8: the extended capability fetch is idempotent. Over a whole session at *)
(* most one BT_CONST_EXT transfer is answered, and once the extended        *)
(* capability is cached no operation replaces it. An access on a device     *)
(* without the extended-bit-timing feature returns None (or propagates the  *)
(* error of its BT_CONST fetch) and never issues BT_CONST_EXT. On a device  *)
(* with the feature, an access that finds the extended capability cached    *)
(* returns exactly that capability with no transport call; an access that   *)
(* does not, issues exactly one BT_CONST_EXT transfer (request 11, 72       *)
(* bytes) as its last transport call and, when it is answered, caches and   *)
(* returns the capability with the data-phase fields populated.             *)
C8_ExtendedIdempotent ==
    /\ n_ext_xfers <= 1
    /\ (before.capability # NoCapability /\ has_fd_timing(before.capability)) =>
           capability = before.capability
    /\ (capability # NoCapability /\ has_fd_timing(capability)) =>
           n_ext_xfers = 1 /\ ExtendedCapabilityOf(capability, dev)
    /\ (op.name = "device_capability_extended"
          /\ ~(Len(calls) > 0 /\ IsBtConstFetch(calls[1]) /\ ~calls[1].ok)) =>
        IF Bit(dev.feature, 10) = 0
        THEN /\ result.status = "None"
             /\ CountCtrl(calls, 11) = 0
             /\ ~has_fd_timing(capability)
        ELSE IF before.capability # NoCapability
                /\ has_fd_timing(before.capability)
        THEN /\ calls = <<>>
             /\ result.status = "DeviceCapability"
             /\ result.value = before.capability
             /\ session = before
        ELSE /\ CountCtrl(calls, 11) = 1
             /\ IsBtConstExtFetch(LastCall)
             /\ \A i \in 1..(Len(calls) - 1) : IsBtConstFetch(calls[i])
             /\ IF LastCall.ok
                THEN /\ result.status = "DeviceCapability"
                     /\ result.value = capability
                     /\ ExtendedCapabilityOf(capability, dev)
                ELSE /\ result.status = "USBError"
                     /\ ~has_fd_timing(capability)

\* a later access, on a started controller, answered from the cache
C8_Witness ==
    /\ op.name = "device_capability_extended"
    /\ Bit(dev.feature, 10) = 1
    /\ n_ext_xfers = 1
    /\ device_flags # 0
    /\ calls = <<>>
    /\ result.status = "DeviceCapability"
    /\ has_fd_timing(result.value)

(* C9: send(frame) is accepted in any state; each call that encodes         *)
(* successfully performs exactly one bulk write to endpoint 0x02 and no     *)
(* bulk read, and the buffer written has 20, 24, 76 or 80 bytes according   *)
(* to the session's FD-active bit and recorded HW_TIMESTAMP flag alone,     *)
(* whatever the frame's own FD flag; the session state is unchanged.        *)
C9_SendOneWrite ==
    (op.name = "send" /\ result.status # "struct.error") =>
        /\ Len(calls) = 1
        /\ calls[1].call = "write"
        /\ calls[1].endpoint = 2
        /\ CountCall(calls, "read") = 0
        /\ Len(calls[1].data) = LayoutSize(device_flags, fd_mode)
        /\ Len(calls[1].data) =
              IF fd_mode THEN IF Bit(device_flags, 4) = 1 THEN 80 ELSE 76
              ELSE IF Bit(device_flags, 4) = 1 THEN 24 ELSE 20
        /\ result.status = IF calls[1].ok THEN "True" ELSE "USBError"
        /\ session = before

\* a frame without the FD flag sent in an FD session with hardware
\* timestamps: 80 bytes, by the session's flags
C9_Witness ==
    /\ op.name = "send"
    /\ ~is_fd(op.args[1])
    /\ fd_mode
    /\ Bit(device_flags, 4) = 1
    /\ result.status = "True"
    /\ Len(calls[1].data) = 80

(* C10: read(frame, timeout_ms) issues exactly one bulk read on endpoint    *)
(* 0x81, with the caller's timeout and sized 20, 24, 76 or 80 bytes by the  *)
(* session's FD-active bit and recorded HW_TIMESTAMP flag; when that read   *)
(* raises (a timeout), read returns False, the caller's frame is as it was  *)
(* passed and the recorded flags, FD-active bit and cached capability are   *)
(* unchanged.                                                               *)
C10_ReadTimeout ==
    op.name = "read" =>
        /\ Len(calls) = 1
        /\ calls[1].call = "read"
        /\ calls[1].endpoint = 129
        /\ calls[1].length = LayoutSize(device_flags, fd_mode)
        /\ calls[1].timeout = op.args[2]
        /\ session = before
        /\ ~calls[1].ok =>
              /\ result.status = "False"
              /\ frame = op.args[1]

\* a blocking-forever timeout of 0 on an FD session, into a frame object
\* that holds an earlier frame
C10_Witness ==
    /\ op.name = "read"
    /\ op.args = <<UsedFrame, 0>>
    /\ fd_mode
    /\ ~calls[1].ok
    /\ result.status = "False"
    /\ frame = UsedFrame
    /\ calls[1].length = 76

-----------------------------------------------------------------------------
\* the buffer the bulk read of the last read() returned
RxData == calls[1].data

\* a read() whose bulk read returned a buffer
ReadGotData == op.name = "read" /\ calls[1].ok

\* the size of the layout read() selects for a buffer: by the recorded
\* HW_TIMESTAMP flag and the FD bit of the buffer's flags byte
SelectedSize(data) ==
    12 + (IF is_fd_frame(data) THEN 64 ELSE 8)
       + (IF Bit(device_flags, 4) = 1 THEN 4 ELSE 0)

\* the header of frame f is the header of buffer b
HeaderOf(f, b) ==
    /\ f.echo_id = W32At(b, 0)
    /\ f.can_id = W32At(b, 4)
    /\ f.can_dlc = b[9]
    /\ f.channel = b[10]
    /\ f.flags = b[11]

(* C11, as claimed: in an FD-active session a received buffer whose flags   *)
(* byte has the FD bit clear is decoded by read(), whether it arrives in    *)
(* the classic layout (20 bytes, 24 with timestamp) or in the FD layout (76 *)
(* bytes, 80 with timestamp): read returns True, the frame's header fields  *)
(* equal the buffer's header and the frame reports is_fd = false.           *)
C11_Original ==
    (ReadGotData /\ fd_mode /\ Len(RxData) >= 11
       /\ BitAnd(RxData[11], GS_CAN_FLAG_FD) = 0
       /\ Len(RxData) \in {LayoutSize(device_flags, FALSE),
                           LayoutSize(device_flags, TRUE)}) =>
        /\ result.status = "True"
        /\ HeaderOf(frame, RxData)
        /\ ~is_fd(frame)

(* C12: a buffer shorter than the layout read() selects for it (by the      *)
(* recorded HW_TIMESTAMP flag and the FD bit of the buffer's flags byte) is *)
(* fatal to that read only: the read raises struct.error, the caller's      *)
(* frame keeps every field value it was passed with, the recorded flags,    *)
(* FD-active bit and cached capability are unchanged, and a read that       *)
(* follows it and receives a buffer of exactly the selected size returns    *)
(* True with the frame's header taken from that buffer.                     *)
C12_ShortBufferFatalToOneRead ==
    [][/\ (ReadGotData /\ Len(RxData) < SelectedSize(RxData))' =>
             /\ result'.status = "struct.error"
             /\ frame' = op'.args[1]
             /\ session' = before'
             /\ session' = session
       /\ (/\ ReadGotData /\ Len(RxData) < SelectedSize(RxData)
           /\ (ReadGotData /\ Len(RxData) = SelectedSize(RxData))') =>
             /\ result'.status = "True"
             /\ HeaderOf(frame, RxData)'
             /\ session' = session]_vars

\* a 12-byte transfer in an FD session with hardware timestamps, read into a
\* frame object that holds an earlier frame
C12_Witness ==
    /\ ReadGotData
    /\ Len(RxData) = 12
    /\ fd_mode
    /\ Bit(device_flags, 4) = 1
    /\ op.args[1] = UsedFrame
    /\ result.status = "struct.error"
    /\ frame = UsedFrame

-----------------------------------------------------------------------------
\* a pack followed by the unpack_into of its bytes with the same two flags,
\* the frame being of the kind of the layout (classic in a classic layout,
\* CAN FD in an FD layout) with its DLC in range
RoundTripStep ==
    /\ op.name = "pack"
    /\ result.status = "bytes"
    /\ is_fd(frame) = op.args[2]
    /\ frame.can_dlc \in 0..(IF is_fd(frame) THEN 15 ELSE 8)
    /\ op'.name = "unpack_into"
    /\ op'.args[2] = result.value
    /\ op'.args[3] = op.args[1]
    /\ op'.args[4] = op.args[2]

(* C13, as claimed: frame encode then decode is the identity. For each of   *)
(* the four (fd_mode, hw_timestamp) layouts and every frame with DLC 0..8   *)
(* (classic) or 0..15 (FD), decoding pack(frame, hw_timestamp, fd_mode)     *)
(* with the same two flags yields a frame equal to the original in echo_id, *)
(* can_id, can_dlc, channel, flags, reserved, data and, where the layout    *)
(* carries it, timestamp_us.                                                *)
C13_Original ==
    [][RoundTripStep =>
          /\ result'.status = "None"
          /\ frame'.echo_id = frame.echo_id
          /\ frame'.can_id = frame.can_id
          /\ frame'.can_dlc = frame.can_dlc
          /\ frame'.channel = frame.channel
          /\ frame'.flags = frame.flags
          /\ frame'.reserved = frame.reserved
          /\ frame'.data = frame.data
          /\ op'.args[3] => frame'.timestamp_us = frame.timestamp_us]_vars

\* the CAN FD payload lengths, by DLC 0..15, as the documentation lists them
FdLengthTable == <<0, 1, 2, 3, 4, 5, 6, 7, 8, 12, 16, 20, 24, 32, 48, 64>>

(* C14: for every length L >= 0, len_to_dlc(L, fd=True) is the smallest     *)
(* index i in 0..15 of the table with table[i] >= L, and 15 when there is   *)
(* none (L > 64): 9 -> 9, 64 -> 15, 65 -> 15. It never raises.              *)
C14_LenToDlcCeiling ==
    (op.name = "len_to_dlc" /\ op.args[2]) =>
        LET L == op.args[1]
            d == result.value
        IN /\ result.status = "int"
           /\ d \in 0..15
           /\ IF L > 64 THEN d = 15
              ELSE /\ FdLengthTable[d + 1] >= L
                   /\ \A j \in 0..(d - 1) : FdLengthTable[j + 1] < L
           /\ L = 9 => d = 9
           /\ L = 64 => d = 15
           /\ L = 65 => d = 15

\* 33 bytes do not fit DLC 13 (32 bytes): the next entry, DLC 14, is taken
C14_Witness ==
    /\ op.name = "len_to_dlc"
    /\ op.args = <<33, TRUE>>
    /\ result.value = 14

(* C15: dlc_to_len is the left inverse of len_to_dlc on in-range DLCs: for  *)
(* every DLC d in 0..15 with fd=True and in 0..8 with fd=False,             *)
(* len_to_dlc(dlc_to_len(d, fd), fd) = d; and for every length L that is    *)
(* representable in the mode, dlc_to_len(len_to_dlc(L, fd), fd) = L.        *)
C15_LeftInverse ==
    /\ (op.name = "dlc_to_len"
          /\ op.args[1] \in 0..(IF op.args[2] THEN 15 ELSE 8)) =>
           len_to_dlc(result.value, op.args[2]) = op.args[1]
    /\ (op.name = "len_to_dlc"
          /\ IF op.args[2]
             THEN \E i \in 1..16 : FdLengthTable[i] = op.args[1]
             ELSE op.args[1] \in 0..8) =>
           dlc_to_len(result.value, op.args[2]) = op.args[1]

\* DLC 13 is 32 bytes, and 32 bytes are DLC 13
C15_Witness ==
    /\ op.name = "dlc_to_len"
    /\ op.args = <<13, TRUE>>
    /\ result.value = 32
    /\ len_to_dlc(32, TRUE) = 13

(* C16, as claimed: for every 32-bit CAN identifier word, is_extended_id is *)
(* bit 31, is_remote_frame is bit 30, is_error_frame is bit 29, and         *)
(* arbitration_id is the low 29 bits when bit 31 is set and the low 11 bits *)
(* when bit 31 is clear.                                                    *)
C16_Original ==
    op.name = "id_properties" =>
        LET hi == op.args[1][1]
            lo == op.args[1][2]
            p == result.value
        IN /\ p.is_extended_id = (Bit(hi, 15) = 1)
           /\ p.is_remote_frame = (Bit(hi, 14) = 1)
           /\ p.is_error_frame = (Bit(hi, 13) = 1)
           /\ p.arbitration_id = IF Bit(hi, 15) = 1 THEN <<hi % 8192, lo>>
                                 ELSE <<0, lo % 2048>>

-----------------------------------------------------------------------------
\* a set_bitrate or set_data_bitrate call that returned True
TimingApplied ==
    /\ op.name \in {"set_bitrate", "set_data_bitrate"}
    /\ result.status = "True"

\* word i (1..5) of the payload of the last transport call
TimingWord(i) == U32At(LastCall.data, 4 * (i - 1))

(* C17: for every entry of the nominal tables (48, 80, 40 MHz x the ten     *)
(* bitrates) and of the data-phase tables, the timing applied has           *)
(* prop_seg = 1 and sjw = 1, and with TQ = 1 + prop_seg + phase_seg1 +      *)
(* phase_seg2 the clock is brp * TQ * bitrate (for 83333 the bitrate is     *)
(* floor(clock / (brp * TQ))); in the 40 MHz nominal table TQ is 16, except *)
(* 10 for 800k and 8 for 1M.                                                *)
C17_TimeQuanta ==
    TimingApplied =>
        LET prop_seg == TimingWord(1)
            phase_seg1 == TimingWord(2)
            phase_seg2 == TimingWord(3)
            sjw == TimingWord(4)
            brp == TimingWord(5)
            TQ == 1 + prop_seg + phase_seg1 + phase_seg2
            bitrate == op.args[1]
        IN /\ prop_seg = 1
           /\ sjw = 1
           /\ brp >= 1
           /\ IF bitrate = 83333
              THEN dev.fclk_can \div (brp * TQ) = bitrate
              ELSE dev.fclk_can = brp * TQ * bitrate
           /\ (op.name = "set_bitrate" /\ dev.fclk_can = 40000000) =>
                 TQ = IF bitrate = 800000 THEN 10
                      ELSE IF bitrate = 1000000 THEN 8 ELSE 16

\* 83333 bit/s at 80 MHz: 60 * 16 quanta, the one entry that does not divide
C17_Witness ==
    /\ TimingApplied
    /\ op.name = "set_bitrate"
    /\ op.args[1] = 83333
    /\ dev.fclk_can = 80000000
    /\ TimingWord(5) = 60

\* the table entries, stated apart from the solver: <<phase_seg1, phase_seg2,
\* brp>> for a nominal bitrate at 48, 80 and 40 MHz (16 time quanta, except
\* for 800k and for 1M at 40 MHz)
DocumentedNominal(clk, bitrate) ==
    LET brp16 == clk \div (16 * bitrate)
    IN IF bitrate = 800000
       THEN (IF clk = 48000000 THEN <<11, 2, 4>>
             ELSE IF clk = 80000000 THEN <<7, 1, 10>> ELSE <<7, 1, 5>>)
       ELSE IF bitrate = 1000000 /\ clk = 40000000 THEN <<5, 1, 5>>
       ELSE <<12, 2, brp16>>

\* and for a data bitrate at 80 and 40 MHz
DocumentedData(clk, bitrate) ==
    IF clk = 80000000
    THEN CASE bitrate = 2000000 -> <<4, 2, 5>>
           [] bitrate = 4000000 -> <<1, 1, 5>>
           [] bitrate = 5000000 -> <<4, 2, 2>>
           [] bitrate = 8000000 -> <<2, 1, 2>>
    ELSE CASE bitrate = 2000000 -> <<6, 2, 2>>
           [] bitrate = 4000000 -> <<2, 1, 2>>
           [] bitrate = 5000000 -> <<4, 2, 1>>
           [] bitrate = 8000000 -> <<2, 1, 1>>
           [] bitrate = 10000000 -> <<1, 1, 1>>

\* the four bytes of a little-endian u32 below 65536
LittleEndian(n) == <<n % 256, n \div 256, 0, 0>>

(* C18: every successful set_bitrate call issues exactly one BITTIMING      *)
(* control transfer (request 1, direction 0x41) whose payload is exactly 20 *)
(* bytes, the five little-endian u32 words [prop_seg, phase_seg1,           *)
(* phase_seg2, sjw, brp] of the selected table entry in that order, and     *)
(* every successful set_data_bitrate call exactly one DATA_BITTIMING        *)
(* (request 10) transfer of the same shape; for 40 MHz and 500000 the words *)
(* are [1, 12, 2, 1, 5].                                                    *)
C18_TimingPayload ==
    TimingApplied =>
        LET nominal == op.name = "set_bitrate"
            e == IF nominal THEN DocumentedNominal(dev.fclk_can, op.args[1])
                 ELSE DocumentedData(dev.fclk_can, op.args[1])
        IN /\ CountCtrl(calls, 1) = (IF nominal THEN 1 ELSE 0)
           /\ CountCtrl(calls, 10) = (IF nominal THEN 0 ELSE 1)
           /\ LastCall.call = "ctrl_transfer"
           /\ LastCall.bmRequestType = 65
           /\ LastCall.bRequest = (IF nominal THEN 1 ELSE 10)
           /\ LastCall.wValue = 0
           /\ LastCall.wIndex = 0
           /\ Len(LastCall.data) = 20
           /\ LastCall.data = LittleEndian(1) \o LittleEndian(e[1])
                              \o LittleEndian(e[2]) \o LittleEndian(1)
                              \o LittleEndian(e[3])
           /\ (nominal /\ dev.fclk_can = 40000000 /\ op.args[1] = 500000) =>
                 LastCall.data = <<1, 0, 0, 0, 12, 0, 0, 0, 2, 0, 0, 0,
                                   1, 0, 0, 0, 5, 0, 0, 0>>

\* 10 kbit/s at 48 MHz: the prescaler 300 takes two bytes, low byte first
C18_Witness ==
    /\ TimingApplied
    /\ op.name = "set_bitrate"
    /\ op.args[1] = 10000
    /\ dev.fclk_can = 48000000
    /\ SubSeq(LastCall.data, 17, 20) = <<44, 1, 0, 0>>

(* C19: start may be called in any state, while already started included.   *)
(* Every start call resets the transport first, and a call that succeeds    *)
(* then issues exactly one MODE(START) control transfer, as its last        *)
(* transport call; after it the recorded flags are exactly the bits of that *)
(* call's requested flags that the device supports and the driver forwards, *)
(* and the FD-active bit is the FD bit of those flags: nothing of the       *)
(* session before the call persists.                                        *)
C19_Restart ==
    op.name = "start" =>
        /\ calls[1].call = "reset"
        /\ CountCall(calls, "reset") = 1
        /\ result.status = "None" =>
              /\ CountCtrl(calls, GS_USB_BREQ_MODE) = 1
              /\ LastCall.bmRequestType = 65
              /\ LastCall.bRequest = 2
              /\ U32At(LastCall.data, 0) = 1
              /\ U32At(LastCall.data, 4) = device_flags
              /\ \A i \in FlagBits :
                    Bit(device_flags, i) = 1 <=>
                        /\ Bit(op.args[1], i) = 1
                        /\ Bit(dev.feature, i) = 1
                        /\ i \in DriverModeBits
              /\ fd_mode = (Bit(op.args[1], 8) = 1 /\ Bit(dev.feature, 8) = 1)

\* a start with the default flags on a session that an earlier start left
\* FD-active with loop-back: only HW_TIMESTAMP remains
C19_Witness ==
    /\ op.name = "start"
    /\ op.args[1] = 16
    /\ before.device_flags = 258
    /\ before.fd_mode
    /\ result.status = "None"
    /\ device_flags = 16
    /\ ~fd_mode

\* a set_data_bitrate call on a device that does not report the
\* extended-bit-timing feature
DataBitrateWithoutExt ==
    /\ op.name = "set_data_bitrate"
    /\ Bit(dev.feature, 10) = 0

(* C20, as claimed: if the device does not report the extended-bit-timing   *)
(* feature, set_data_bitrate returns False for every clock and bitrate and  *)
(* never issues a DATA_BITTIMING transfer, even when the device reports the *)
(* FD feature bit. Stated for calls in which no transport call raised.      *)
C20_Original ==
    (DataBitrateWithoutExt /\ AllOk(calls)) =>
        /\ result.status = "False"
        /\ CountCtrl(calls, 10) = 0

(* C20, amended: data-phase configuration depends on the FD feature bit     *)
(* alone. On a device that does not report the extended-bit-timing feature, *)
(* set_data_bitrate whose transport calls do not raise returns True and     *)
(* issues exactly one DATA_BITTIMING transfer when the device reports the   *)
(* FD bit and (clock, bitrate) is an entry of the 80 MHz or 40 MHz data     *)
(* table, and returns False without a DATA_BITTIMING transfer otherwise; it *)
(* never issues BT_CONST_EXT.                                               *)
C20_DataBitrateWithoutExt ==
    DataBitrateWithoutExt =>
        LET entry == Bit(dev.feature, 8) = 1
                     /\ InDataTable(dev.fclk_can, op.args[1])
        IN /\ CountCtrl(calls, 11) = 0
           /\ AllOk(calls) =>
                 /\ result.status = (IF entry THEN "True" ELSE "False")
                 /\ CountCtrl(calls, 10) = (IF entry THEN 1 ELSE 0)
           /\ ~entry => CountCtrl(calls, 10) = 0
           /\ ~AllOk(calls) => result.status = "USBError"

\* 2 Mbit/s at 80 MHz on a device with FD and without extended bit timing
C20_Witness ==
    /\ DataBitrateWithoutExt
    /\ dev.feature = 274
    /\ dev.fclk_can = 80000000
    /\ op.args[1] = 2000000
    /\ result.status = "True"
    /\ CountCtrl(calls, 10) = 1
    /\ ~has_fd_timing(capability)

-----------------------------------------------------------------------------
\* a set_bitrate call at the default sample point that returned True
NominalApplied ==
    /\ op.name = "set_bitrate"
    /\ op.args[2] = 875
    /\ result.status = "True"

\* the quanta up to the sampling edge, and the quanta of the bit, of the
\* timing in the payload of the last transport call
QuantaToSample == 1 + TimingWord(1) + TimingWord(2)
QuantaOfBit == 1 + TimingWord(1) + TimingWord(2) + TimingWord(3)

(* C21, as claimed: every nominal timing that set_bitrate applies when      *)
(* called with sample_point = 87.5 has a sample point of exactly 87.5%:     *)
(* 8 * (1 + prop_seg + phase_seg1) = 7 * (1 + prop_seg + phase_seg1 +       *)
(* phase_seg2), for every entry of the 48, 80 and 40 MHz tables.            *)
C21_Original ==
    NominalApplied => 8 * QuantaToSample = 7 * QuantaOfBit

(* C21, amended: every nominal timing that set_bitrate applies when called  *)
(* with sample_point = 87.5 has a sample point of exactly 87.5%, except the *)
(* three 800 kbit/s entries: at 48 MHz the sample point is 13/15 (86.7%),   *)
(* at 80 MHz and at 40 MHz it is 9/10 (90%).                                *)
C21_SamplePoints ==
    NominalApplied =>
        IF op.args[1] # 800000
        THEN 8 * QuantaToSample = 7 * QuantaOfBit
        ELSE IF dev.fclk_can = 48000000
        THEN QuantaToSample = 13 /\ QuantaOfBit = 15
        ELSE QuantaToSample = 9 /\ QuantaOfBit = 10

\* 800 kbit/s at 80 MHz, applied with 9 of 10 quanta before the sampling edge
C21_Witness ==
    /\ NominalApplied
    /\ op.args[1] = 800000
    /\ dev.fclk_can = 80000000
    /\ QuantaToSample = 9
    /\ QuantaOfBit = 10

-----------------------------------------------------------------------------
(* C22, as claimed: stop() tears the session down. After stop() returns,    *)
(* whether or not its transfer succeeded, the recorded mode flags are 0 and *)
(* the FD-active flag is false, so that a send or read issued after it uses *)
(* the classic 20-byte layout.                                              *)
C22_Original ==
    op.name = "stop" =>
        /\ device_flags = 0
        /\ ~fd_mode
        /\ frame_sizeof(hw_timestamps(device_flags), fd_mode) = 20

\* LISTEN_ONLY | LOOP_BACK | ONE_SHOT | HW_TIMESTAMP | FD
DriverModeMask == 1 + 2 + 8 + 16 + 256

(* C26: in every reachable state, after any sequence of start, stop,        *)
(* set_bitrate, set_data_bitrate, send, read, get_state and capability      *)
(* accesses, failing ones included, the FD-active flag is true exactly when *)
(* the FD bit is set in the recorded mode flags, and the recorded mode      *)
(* flags have no bit outside LISTEN_ONLY | LOOP_BACK | ONE_SHOT |           *)
(* HW_TIMESTAMP | FD.                                                       *)
C26_FlagsConsistent ==
    /\ fd_mode <=> Bit(device_flags, 8) = 1
    /\ BitAnd(device_flags, DriverModeMask) = device_flags
    /\ \A i \in FlagBits : Bit(device_flags, i) = 1 => i \in DriverModeBits
    /\ device_flags < Pow2(14)

\* a start whose MODE transfer raised, on a session started before with
\* hardware timestamps only: the flags recorded are FD with loop-back
C26_Witness ==
    /\ op.name = "start"
    /\ result.status = "USBError"
    /\ before.device_flags = 16
    /\ device_flags = 258
    /\ fd_mode

\* a start call that issued its MODE transfer and saw it raise
StartModeFailed ==
    /\ op.name = "start"
    /\ CountCtrl(calls, GS_USB_BREQ_MODE) = 1
    /\ ~LastCall.ok

(* C27, as claimed: if the MODE control transfer issued by start() fails    *)
(* with a transport error, the error propagates to the caller and the       *)
(* recorded mode flags and FD-active bit keep the values they had before    *)
(* the call.                                                                *)
C27_Original ==
    StartModeFailed =>
        /\ result.status = "USBError"
        /\ device_flags = before.device_flags
        /\ fd_mode = before.fd_mode

-----------------------------------------------------------------------------
\* set_bitrate or set_data_bitrate transmitted a timing
TimingSent ==
    /\ op.name \in {"set_bitrate", "set_data_bitrate"}
    /\ calls # <<>>
    /\ LastCall.bRequest \in {GS_USB_BREQ_BITTIMING, GS_USB_BREQ_DATA_BITTIMING}

\* the constraints the device reported for the phase of the timing sent
ReportedConstraints ==
    IF LastCall.bRequest = GS_USB_BREQ_BITTIMING THEN dev.bt ELSE dev.dbt

(* C23, as claimed: every bit timing that set_bitrate or set_data_bitrate   *)
(* sends to a device satisfies the constraints that device reported:        *)
(* tseg1_min <= prop_seg + phase_seg1 <= tseg1_max, tseg2_min <= phase_seg2 *)
(* <= tseg2_max, sjw <= sjw_max and brp_min <= brp <= brp_max, with the     *)
(* data-phase bounds for DATA_BITTIMING; a timing outside the reported      *)
(* bounds is never transmitted.                                             *)
C23_Original ==
    TimingSent =>
        LET c == ReportedConstraints
        IN /\ c[1] <= TimingWord(1) + TimingWord(2)
           /\ TimingWord(1) + TimingWord(2) <= c[2]
           /\ c[3] <= TimingWord(3)
           /\ TimingWord(3) <= c[4]
           /\ TimingWord(4) <= c[5]
           /\ c[6] <= TimingWord(5)
           /\ TimingWord(5) <= c[7]

-----------------------------------------------------------------------------
\* a device_info access that returned a value
DeviceInfoRead ==
    /\ op.name = "device_info"
    /\ result.status = "DeviceInfo"

(* C24, as claimed: device info is fetched once. A device_info access that  *)
(* follows one that returned a value issues no DEVICE_CONFIG control        *)
(* transfer and returns the value obtained by the first.                    *)
C24_Original ==
    [][(DeviceInfoRead /\ op'.name = "device_info")
          => (calls' = <<>> /\ result' = result)]_vars

-----------------------------------------------------------------------------
\* get_state issued its GET_STATE transfer
GetStateIssued ==
    /\ op.name = "get_state"
    /\ calls # <<>>
    /\ LastCall.bRequest = GS_USB_BREQ_GET_STATE

(* C25, as claimed: get_state(channel) issues the GET_STATE control         *)
(* transfer (request 14, direction 0xC1, 12 bytes) with the channel number  *)
(* in the index field of the request and the value field unused (0).        *)
C25_Original ==
    GetStateIssued =>
        /\ LastCall.bmRequestType = DeviceToHost
        /\ LastCall.length = 12
        /\ LastCall.wIndex = op.args[1]
        /\ LastCall.wValue = 0

(* C25: get_state(channel) issues the GET_STATE control transfer (request   *)
(* 14, direction 0xC1, 12 bytes) with the channel number in the value field *)
(* of the request and the index field 0, for every channel number. It is    *)
(* the only GET_STATE transfer of the call.                                 *)
C25_ChannelInValue ==
    GetStateIssued =>
        /\ LastCall.call = "ctrl_transfer"
        /\ LastCall.bmRequestType = DeviceToHost
        /\ LastCall.bRequest = 14
        /\ LastCall.length = 12
        /\ LastCall.wValue = op.args[1]
        /\ LastCall.wIndex = 0
        /\ CountCtrl(calls, GS_USB_BREQ_GET_STATE) = 1

C25_Witness ==
    /\ GetStateIssued
    /\ op.args[1] = 1
    /\ LastCall.wValue = 1
    /\ LastCall.wIndex = 0
    /\ result.status = "DeviceState"

-----------------------------------------------------------------------------
\* unpack_into(target, data, hw_timestamp, fd_mode) returned without raising
Decoded ==
    /\ op.name = "unpack_into"
    /\ result.status = "None"

(* C28: decoding into an existing frame with a layout that has no timestamp *)
(* (hw_timestamp = false) overwrites echo_id, can_id, can_dlc, channel,     *)
(* flags, reserved and data from the buffer but leaves timestamp_us as the  *)
(* target frame held it; with hw_timestamp = true every field, timestamp_us *)
(* included (the last four bytes of the buffer), is overwritten from the    *)
(* buffer.                                                                  *)
C28_TimestampKept ==
    Decoded =>
        LET target == op.args[1]
            data == op.args[2]
            hw_timestamp == op.args[3]
            n == IF op.args[4] THEN 64 ELSE 8
        IN /\ HeaderOf(frame, data)
           /\ frame.reserved = data[12]
           /\ SubSeq(frame.data, 1, n) = SubSeq(data, 13, 12 + n)
           /\ frame.timestamp_us = IF hw_timestamp THEN W32At(data, 12 + n)
                                   ELSE target.timestamp_us

\* a used frame decoded into from a buffer without timestamp: identifier and
\* echo id replaced, the old timestamp still there
C28_Witness ==
    /\ Decoded
    /\ op.args[1] = UsedFrame
    /\ ~op.args[3]
    /\ frame.can_id # UsedFrame.can_id
    /\ frame.echo_id # UsedFrame.echo_id
    /\ frame.data # UsedFrame.data
    /\ frame.timestamp_us = <<7, 9>>

-----------------------------------------------------------------------------
\* the shape of a frame the constructor built from fd and brs
ConstructedShape(f, fd, brs) ==
    /\ f.can_dlc \in 0..(IF fd THEN 15 ELSE 8)
    /\ Len(f.data) = (IF fd THEN 64 ELSE 8)
    /\ is_brs(f) => is_fd(f)
    /\ is_fd(f) = fd

(* C29, as claimed: every frame built by the GsUsbFrame constructor can be  *)
(* encoded in every session layout: for fd in {false, true}, any payload    *)
(* length and each of the four (fd_mode, hw_timestamp) layouts, pack        *)
(* succeeds and returns a buffer of that layout's size; the constructed     *)
(* frame has can_dlc in 0..8 (classic) or 0..15 (FD), a payload padded to 8 *)
(* or 64 elements, and the BRS flag only together with the FD flag.         *)
C29_Original ==
    [][(op.name = "GsUsbFrame" /\ op'.name = "pack")
          => /\ ConstructedShape(frame, op.args[3], op.args[4])
             /\ result'.status = "bytes"
             /\ Len(result'.value) = frame_sizeof(op'.args[1], op'.args[2])]_vars

====
